---- MODULE Spec2Model ----
(***************************************************************************)
(* RpcGateway (vnpy_rpcservice/rpc_gateway/rpc_gateway.py): the bridge     *)
(* that presents a remote RPC trading backend as one gateway of the host.  *)
(*                                                                         *)
(* Two threads touch the bridge: the host's caller thread (connect, close, *)
(* subscribe, send_order, cancel_order, query_history) and the RpcClient's *)
(* delivery thread, which calls client_callback for every pushed event.    *)
(*                                                                         *)
(* Strings that the code splits or concatenates are sequences of tokens:   *)
(* a token is "." or a dot-free piece of text ("RPC", "gA", "7").          *)
(***************************************************************************)
EXTENDS Integers, Sequences, FiniteSets, TLC

\* ---------------------------------------------------------------- bounds
MaxContracts  == 2   \* longest list get_all_contracts returns (SpecSeq, SpecOrder)
MaxItems      == 1   \* longest list the other four get_all_* return (SpecSeq)
MaxBars       == 2   \* longest list the remote query_history returns (SpecHistory)
MaxDeliveries == 2   \* events the delivery thread receives in a run (Spec)
MaxIdLen      == 5   \* tokens in a remote order identifier (SpecOrder)
MaxConnects   == 2   \* calls of connect on one instance (SpecFail, SpecLife)

\* ------------------------------------------------------------ the domain
\* default_name, the name the host constructs the gateway with
gateway_name == "RPC"

\* default_setting: the two configured addresses
default_setting ==
    [req_address |-> "tcp://127.0.0.1:2014", pub_address |-> "tcp://127.0.0.1:4102"]

\* names of the sub-gateways of the remote backend
RemoteGateways == {"gA", "gB"}

\* vt_symbol values (instrument identities)
Symbols == {"s1", "s2"}

\* the payload types client_callback distinguishes with isinstance, the two
\* other record types the module imports, and a payload with no gateway_name
DerivedKinds == {"position", "account", "order", "trade"}
RecordKinds  == DerivedKinds \cup {"contract", "bar"}

\* value of the gateway_name attribute of a payload that has none (hasattr is false)
NoAttr == "<no attribute>"

\* __post_init__ of the vnpy data classes: the composite keys are rebuilt
\* from the record's current fields.  Account, position, order and trade
\* keys start with gateway_name; a contract's or bar's vt_symbol does not.
post_init(d) ==
    IF d.kind \in DerivedKinds
    THEN [d EXCEPT !.vt_id = <<d.gateway_name, ".", d.id>>]
    ELSE [d EXCEPT !.vt_id = <<d.id>>]

\* a record as the remote backend constructs it (its constructor runs __post_init__)
Rec(kind, id, gw) ==
    post_init([kind |-> kind, id |-> id, gateway_name |-> gw, vt_id |-> <<>>])

\* a payload without a gateway_name attribute (a timer tick, a plain string)
PlainData == [kind |-> "plain", id |-> "x", gateway_name |-> NoAttr, vt_id |-> <<"x">>]

\* no payload (log entries that carry no record)
NoData == [kind |-> "none", id |-> "", gateway_name |-> NoAttr, vt_id |-> <<>>]

\* ContractData.vt_symbol, the routing key
vt_symbol(d) == d.id

\* the None event
None == [isNone |-> TRUE, data |-> NoData]

Event(d) == [isNone |-> FALSE, data |-> d]

\* sequences over S of length at most n
RECURSIVE SeqUpTo(_, _)
SeqUpTo(S, n) ==
    IF n = 0 THEN {<<>>}
    ELSE LET shorter == SeqUpTo(S, n - 1)
         IN shorter \cup {Append(s, x) : s \in {t \in shorter : Len(t) = n - 1}, x \in S}

\* what the remote backend can answer to the five get_all_* calls
RemoteContracts ==
    {Rec("contract", "s1", "gA"), Rec("contract", "s1", "gB"), Rec("contract", "s2", "gA")}
RemoteItems(kind) == {Rec(kind, "1", "gA")}
RemoteBars == {Rec("bar", "s1", "gA"), Rec("bar", "s2", "gB")}

\* what the remote backend can push
PushedData == {Rec("contract", "s2", "gB"), Rec("order", "1", "gA"), PlainData}
PushedEvents == {None} \cup {Event(d) : d \in PushedData}

\* ------------------------------------------------------------- the state
VARIABLES
    symbol_gateway_map, \* dict vt_symbol -> remote gateway name
    active,             \* RpcClient: the transport is started and not stopped
    thread,             \* delivery thread: "none", "check", "polled", "terminated"
    pc,                 \* caller thread: "idle" or its place in connect / close
    stage,              \* query_all: the stage (1..5) being run
    pending,            \* query_all: records of the stage not yet forwarded
    bus,                \* every event put on the host's event bus, in order
    calls,              \* what the current (or last) caller operation called, in order
    reply,              \* what the remote call of the last dispatcher operation answered
    ret,                \* what the last dispatcher operation returned or raised
    fetched,            \* connect: the lists the get_all_* calls returned, by stage
    delivered,          \* events received by the delivery thread so far
    connects,           \* calls of connect so far
    closed,             \* close() has returned and connect was not called since
    history             \* the connect and close calls that have returned, in order

vars == <<symbol_gateway_map, active, thread, pc, stage, pending, bus, calls, reply, ret,
          fetched, delivered, connects, closed, history>>

\* Lookup with the bridge's own name as the default
Lookup_own_default(map, key) == IF key \in DOMAIN map THEN map[key] ELSE gateway_name

\* dict.get(key, "")
Lookup(map, key) == IF key \in DOMAIN map THEN map[key] ELSE ""

\* Store that keeps the entry a key already has
Store_keep_first(map, key, value) ==
    [k \in DOMAIN map \cup {key} |-> IF k \in DOMAIN map THEN map[k] ELSE value]

\* dict[key] = value
Store(map, key, value) ==
    [k \in DOMAIN map \cup {key} |-> IF k = key THEN value ELSE map[k]]

EmptyMap == [k \in {} |-> ""]

NoRet == [kind |-> "none", str |-> <<>>, bars |-> <<>>]

Call(op, data, s) == [op |-> op, data |-> data, s |-> s]

\* __init__
Init ==
    /\ symbol_gateway_map = EmptyMap
    /\ active = FALSE
    /\ thread = "none"
    /\ pc = "idle"
    /\ stage = 0
    /\ pending = <<>>
    /\ bus = <<>>
    /\ calls = <<>>
    /\ reply = NoRet
    /\ ret = NoRet
    /\ fetched = <<>>
    /\ delivered = 0
    /\ connects = 0
    /\ closed = FALSE
    /\ history = <<>>

\* ------------------------------------------------- outbound dispatcher
\* str.split("."): the pieces between the dots, every dot a separator
RECURSIVE split(_)
split(s) ==
    IF \A i \in 1..Len(s) : s[i] # "."
    THEN <<s>>
    ELSE LET i == CHOOSE k \in 1..Len(s) : s[k] = "." /\ \A j \in 1..(k - 1) : s[j] # "."
         IN <<SubSeq(s, 1, i - 1)>> \o split(SubSeq(s, i + 1, Len(s)))

StrRet(s) == [kind |-> "str", str |-> s, bars |-> <<>>]
Raise(exc) == [kind |-> "raise", str |-> <<exc>>, bars |-> <<>>]
BarsRet(bars) == [kind |-> "bars", str |-> <<>>, bars |-> bars]

\* send_order_result without the test "if gateway_orderid"
send_order_result_always_split(gateway_orderid) ==
    LET parts == split(gateway_orderid)
    IN IF Len(parts) = 2
       THEN StrRet(<<gateway_name, ".">> \o parts[2])
       ELSE Raise("ValueError")

\* send_order, lines 68-72: what it returns for the remote result gateway_orderid.
\* "_, orderid = gateway_orderid.split('.')" raises ValueError unless the
\* split has exactly two pieces.
send_order_result(gateway_orderid) ==
    IF gateway_orderid # <<>>
    THEN LET parts == split(gateway_orderid)
         IN IF Len(parts) = 2
            THEN StrRet(<<gateway_name, ".">> \o parts[2])
            ELSE Raise("ValueError")
    ELSE StrRet(gateway_orderid)

\* subscribe(req): one remote subscribe with the looked-up sub-gateway
subscribe(req) ==
    /\ calls' = <<Call("subscribe", NoData, <<req, Lookup(symbol_gateway_map, req)>>)>>
    /\ reply' = NoRet
    /\ ret' = NoRet
    /\ UNCHANGED <<symbol_gateway_map, active, thread, pc, stage, pending, bus,
                   fetched, delivered, connects, closed, history>>

\* send_order(req), the remote call answering gateway_orderid
send_order(req, gateway_orderid) ==
    /\ calls' = <<Call("send_order", NoData, <<req, Lookup(symbol_gateway_map, req)>>)>>
    /\ reply' = StrRet(gateway_orderid)
    /\ ret' = send_order_result(gateway_orderid)
    /\ UNCHANGED <<symbol_gateway_map, active, thread, pc, stage, pending, bus,
                   fetched, delivered, connects, closed, history>>

\* cancel_order(req)
cancel_order(req) ==
    /\ calls' = <<Call("cancel_order", NoData, <<req, Lookup(symbol_gateway_map, req)>>)>>
    /\ reply' = NoRet
    /\ ret' = NoRet
    /\ UNCHANGED <<symbol_gateway_map, active, thread, pc, stage, pending, bus,
                   fetched, delivered, connects, closed, history>>

\* query_history that relabels the bars it returns
query_history_relabelled(req, bars) ==
    /\ calls' = <<Call("query_history", NoData, <<req, Lookup(symbol_gateway_map, req)>>)>>
    /\ reply' = BarsRet(bars)
    /\ ret' = BarsRet([i \in 1..Len(bars) |-> [bars[i] EXCEPT !.gateway_name = gateway_name]])
    /\ UNCHANGED <<symbol_gateway_map, active, thread, pc, stage, pending, bus,
                   fetched, delivered, connects, closed, history>>

\* query_history(req), the remote call answering the list bars
query_history(req, bars) ==
    /\ calls' = <<Call("query_history", NoData, <<req, Lookup(symbol_gateway_map, req)>>)>>
    /\ reply' = BarsRet(bars)
    /\ ret' = BarsRet(bars)
    /\ UNCHANGED <<symbol_gateway_map, active, thread, pc, stage, pending, bus,
                   fetched, delivered, connects, closed, history>>

\* ------------------------------------------------------ connect, query_all
\* the five stages of query_all, in the order of the code
StageKind == <<"contract", "account", "position", "order", "trade">>
StageFetch ==
    <<"get_all_contracts", "get_all_accounts", "get_all_positions",
      "get_all_orders", "get_all_trades">>
StageForward == <<"on_contract", "on_account", "on_position", "on_order", "on_trade">>
StageLog ==
    <<"Successful contract information inquiry",
      "Funding information query successful",
      "Position information query successful",
      "Order information query successful",
      "Successful trade information query">>
ConnectLog == "Server connection successful, starting initialization query"

\* what the remote backend can answer to stage k's fetch
RemoteLists(k) ==
    IF k = 1 THEN SeqUpTo(RemoteContracts, MaxContracts)
    ELSE SeqUpTo(RemoteItems(StageKind[k]), MaxItems)

\* relabel that leaves the remote name in place
relabel_keep(d) == d

\* "x.gateway_name = self.gateway_name"
relabel(d) == [d EXCEPT !.gateway_name = gateway_name]

\* the body of stage k's loop applied to one record: the record as forwarded
query_all_record(k, d) ==
    IF k = 1 THEN relabel(d) ELSE post_init(relabel(d))

\* query_all_map with lines 96 and 97 swapped: the name is stored after the relabel
query_all_map_after_relabel(k, map, d) ==
    IF k = 1 THEN Store(map, vt_symbol(d), relabel(d).gateway_name) ELSE map

\* the body of stage k's loop applied to one record: the routing table after it
query_all_map(k, map, d) ==
    IF k = 1 THEN Store(map, vt_symbol(d), d.gateway_name) ELSE map

Put(via, event) == [via |-> via, event |-> event]

\* connect, line 51: client.subscribe_topic("")
connect_subscribe_topic ==
    /\ pc = "idle"
    /\ pc' = "connect:start"
    /\ calls' = <<Call("subscribe_topic", NoData, <<"">>)>>
    /\ reply' = NoRet
    /\ ret' = NoRet
    /\ fetched' = <<>>
    /\ connects' = connects + 1
    /\ closed' = FALSE
    /\ UNCHANGED <<symbol_gateway_map, active, thread, stage, pending, bus, delivered,
                   history>>

\* connect_start_raise that tries start a second time and goes on
connect_start_raise_retry(setting) ==
    /\ pc = "connect:start"
    /\ active' = TRUE
    /\ thread' = IF active THEN thread ELSE "check"
    /\ calls' = calls \o
                <<Call("start", NoData, <<setting.req_address, setting.pub_address>>),
                  Call("start", NoData, <<setting.req_address, setting.pub_address>>),
                  Call("write_log", NoData, <<ConnectLog>>)>>
    /\ ret' = NoRet
    /\ pc' = "query_all:fetch"
    /\ stage' = 1
    /\ UNCHANGED <<symbol_gateway_map, pending, bus, reply, fetched, delivered,
                   connects, closed, history>>

\* connect, line 52: client.start(req_address, pub_address) raises (the
\* transport cannot be started).  connect has no try/except and no loop:
\* the exception leaves connect, lines 54-56 are not run.
connect_start_raise(setting) ==
    /\ pc = "connect:start"
    /\ calls' = Append(calls, Call("start", NoData,
                                   <<setting.req_address, setting.pub_address>>))
    /\ ret' = Raise("TransportError")
    /\ pc' = "idle"
    /\ UNCHANGED <<symbol_gateway_map, active, thread, stage, pending, bus, reply, fetched,
                   delivered, connects, closed, history>>

\* connect, lines 52-56: client.start(req_address, pub_address) starts the
\* delivery thread; then the log line and the call of query_all
connect_start(setting) ==
    /\ pc = "connect:start"
    /\ active' = TRUE
    /\ thread' = IF active THEN thread ELSE "check"
    /\ calls' = calls \o
                <<Call("start", NoData, <<setting.req_address, setting.pub_address>>),
                  Call("write_log", NoData, <<ConnectLog>>)>>
    /\ pc' = "query_all:fetch"
    /\ stage' = 1
    /\ UNCHANGED <<symbol_gateway_map, pending, bus, reply, ret, fetched, delivered,
                   connects, closed, history>>

\* query_all_fetch that empties the routing table before the contract loop
query_all_fetch_clearing(list) ==
    /\ pc = "query_all:fetch"
    /\ calls' = Append(calls, Call(StageFetch[stage], NoData, <<>>))
    /\ pending' = list
    /\ fetched' = Append(fetched, list)
    /\ pc' = "query_all:loop"
    /\ symbol_gateway_map' = IF stage = 1 THEN EmptyMap ELSE symbol_gateway_map
    /\ UNCHANGED <<active, thread, stage, bus, reply, ret, delivered,
                   connects, closed, history>>

\* query_all: the get_all_* call of the current stage, answering list
query_all_fetch(list) ==
    /\ pc = "query_all:fetch"
    /\ calls' = Append(calls, Call(StageFetch[stage], NoData, <<>>))
    /\ pending' = list
    /\ fetched' = Append(fetched, list)
    /\ pc' = "query_all:loop"
    /\ UNCHANGED <<symbol_gateway_map, active, thread, stage, bus, reply, ret, delivered,
                   connects, closed, history>>

\* query_all: the get_all_* call of the current stage raises (the transport
\* reports a failed or timed-out request).  query_all and connect have no
\* try/except: the exception leaves both, the later stages are not run.
query_all_fetch_raise ==
    /\ pc = "query_all:fetch"
    /\ calls' = Append(calls, Call(StageFetch[stage], NoData, <<>>))
    /\ ret' = Raise("RemoteException")
    /\ pc' = "idle"
    /\ stage' = 0
    /\ UNCHANGED <<symbol_gateway_map, active, thread, pending, bus, reply, fetched,
                   delivered, connects, closed, history>>

\* query_all_store that leaves the routing table as it is
query_all_store_skip ==
    /\ pc = "query_all:loop"
    /\ stage = 1
    /\ pending # <<>>
    /\ symbol_gateway_map' = symbol_gateway_map
    /\ pc' = "query_all:forward"
    /\ UNCHANGED <<active, thread, stage, pending, bus, calls, reply, ret, fetched,
                   delivered, connects, closed, history>>

\* query_all, line 96: the contract loop first stores the contract's remote
\* gateway name in the routing table
query_all_store ==
    /\ pc = "query_all:loop"
    /\ stage = 1
    /\ pending # <<>>
    /\ symbol_gateway_map' = query_all_map(stage, symbol_gateway_map, Head(pending))
    /\ pc' = "query_all:forward"
    /\ UNCHANGED <<active, thread, stage, pending, bus, calls, reply, ret, fetched,
                   delivered, connects, closed, history>>

\* query_all: the rest of one iteration of the current stage's for loop, the
\* relabel (and __post_init__) and the on_* hook that puts the record on the
\* event bus (lines 97-98, 103-105, 110-112, 117-119, 124-126)
query_all_item ==
    /\ pc = IF stage = 1 THEN "query_all:forward" ELSE "query_all:loop"
    /\ pending # <<>>
    /\ LET out == query_all_record(stage, Head(pending))
       IN /\ bus' = Append(bus, Put("query_all", Event(out)))
          /\ calls' = Append(calls, Call(StageForward[stage], out, <<>>))
    /\ pending' = Tail(pending)
    /\ pc' = "query_all:loop"
    /\ UNCHANGED <<symbol_gateway_map, active, thread, stage, reply, ret, fetched,
                   delivered, connects, closed, history>>

\* what history records of a connect that returns
Connect(contracts, map) == [op |-> "connect", contracts |-> contracts, map |-> map]

\* what history records of a close that returns
Close(map) == [op |-> "close", contracts |-> <<>>, map |-> map]

\* query_all_log that writes no log line
query_all_log_silent ==
    /\ pc = "query_all:loop"
    /\ pending = <<>>
    /\ calls' = calls
    /\ IF stage < 5
       THEN /\ stage' = stage + 1
            /\ pc' = "query_all:fetch"
            /\ history' = history
       ELSE /\ stage' = 0
            /\ pc' = "idle"
            /\ history' = Append(history, Connect(fetched[1], symbol_gateway_map))
    /\ UNCHANGED <<symbol_gateway_map, active, thread, pending, bus, reply, ret, fetched,
                   delivered, connects, closed>>

\* query_all: the write_log that ends the current stage; after the last
\* stage query_all and connect return
query_all_log ==
    /\ pc = "query_all:loop"
    /\ pending = <<>>
    /\ calls' = Append(calls, Call("write_log", NoData, <<StageLog[stage]>>))
    /\ IF stage < 5
       THEN /\ stage' = stage + 1
            /\ pc' = "query_all:fetch"
            /\ history' = history
       ELSE /\ stage' = 0
            /\ pc' = "idle"
            /\ history' = Append(history, Connect(fetched[1], symbol_gateway_map))
    /\ UNCHANGED <<symbol_gateway_map, active, thread, pending, bus, reply, ret, fetched,
                   delivered, connects, closed>>

\* ------------------------------------------------------------------ close
\* close, line 131: client.stop() clears the transport's active flag
close_stop ==
    /\ pc = "idle"
    /\ pc' = "close:join"
    /\ active' = FALSE
    /\ calls' = <<Call("stop", NoData, <<>>)>>
    /\ reply' = NoRet
    /\ ret' = NoRet
    /\ UNCHANGED <<symbol_gateway_map, thread, stage, pending, bus, fetched,
                   delivered, connects, closed, history>>

\* close_join that does not wait for the delivery thread
close_join_nowait ==
    /\ pc = "close:join"
    /\ thread' = thread
    /\ pc' = "idle"
    /\ closed' = TRUE
    /\ calls' = Append(calls, Call("join", NoData, <<>>))
    /\ history' = Append(history, Close(symbol_gateway_map))
    /\ UNCHANGED <<symbol_gateway_map, active, stage, pending, bus, reply, ret, fetched,
                   delivered, connects>>

\* close, line 132: client.join() returns once the delivery thread has ended
close_join ==
    /\ pc = "close:join"
    /\ thread \in {"none", "terminated"}
    /\ thread' = "none"
    /\ pc' = "idle"
    /\ closed' = TRUE
    /\ calls' = Append(calls, Call("join", NoData, <<>>))
    /\ history' = Append(history, Close(symbol_gateway_map))
    /\ UNCHANGED <<symbol_gateway_map, active, stage, pending, bus, reply, ret, fetched,
                   delivered, connects>>

\* -------------------------------------------------------- inbound callback
\* client_callback_data without the call of __post_init__
client_callback_data_stale(data) ==
    IF data.gateway_name # NoAttr THEN relabel(data) ELSE data

\* client_callback_data without the test hasattr(data, "gateway_name")
client_callback_data_always_relabel(data) ==
    LET d1 == relabel(data)
    IN IF d1.kind \in {"position", "account", "order", "trade"} THEN post_init(d1) ELSE d1

\* client_callback, lines 140-146: the payload as it is forwarded
client_callback_data(data) ==
    LET d1 == IF data.gateway_name # NoAttr THEN relabel(data) ELSE data
    IN IF d1.kind \in {"position", "account", "order", "trade"} THEN post_init(d1) ELSE d1

\* client_callback without the test "if event is None"
client_callback_no_guard(event) ==
    /\ bus' = Append(bus, Put("client_callback",
                              IF event.isNone THEN event
                              ELSE Event(client_callback_data(event.data))))
    /\ UNCHANGED symbol_gateway_map

\* client_callback that stores the gateway name of a pushed contract in the
\* routing table before it relabels it
client_callback_storing(event) ==
    /\ IF event.isNone
       THEN bus' = bus
       ELSE bus' = Append(bus, Put("client_callback", Event(client_callback_data(event.data))))
    /\ symbol_gateway_map' =
          IF ~event.isNone /\ event.data.kind = "contract"
          THEN Store(symbol_gateway_map, vt_symbol(event.data), event.data.gateway_name)
          ELSE symbol_gateway_map

\* client_callback(topic, event): the event bus after it; the callback
\* neither reads nor writes symbol_gateway_map
client_callback(event) ==
    /\ IF event.isNone
       THEN bus' = bus
       ELSE bus' = Append(bus, Put("client_callback", Event(client_callback_data(event.data))))
    /\ UNCHANGED symbol_gateway_map

\* the delivery thread's loop test: "while self.__active"
thread_check ==
    /\ thread = "check"
    /\ thread' = IF active THEN "polled" ELSE "terminated"
    /\ UNCHANGED <<symbol_gateway_map, active, pc, stage, pending, bus, calls, reply, ret,
                   fetched, delivered, connects, closed, history>>

\* the delivery thread receives a pushed event and calls the callback
thread_deliver(event) ==
    /\ thread = "polled"
    /\ delivered < MaxDeliveries
    /\ client_callback(event)
    /\ delivered' = delivered + 1
    /\ thread' = "check"
    /\ UNCHANGED <<active, pc, stage, pending, calls, reply, ret,
                   fetched, connects, closed, history>>

\* the delivery thread's poll times out: nothing was pushed
thread_timeout ==
    /\ thread = "polled"
    /\ thread' = "check"
    /\ UNCHANGED <<symbol_gateway_map, active, pc, stage, pending, bus, calls, reply, ret,
                   fetched, delivered, connects, closed, history>>

\* ------------------------------------------------------ the specification
\* the host calls a dispatcher operation only between connect and close
Connected == pc = "idle" /\ active

\* tokens of the remote answers to send_order
Tokens == {"a", "."}

\* remote answers to send_order the runs of Spec and SpecSeq draw from
OrderIdSamples == {<<>>, <<"gA", ".", "7">>, <<"gA", ".", "7", ".", "8">>}

\* remote answers to query_history the runs of Spec and SpecSeq draw from
BarSamples == {<<>>, <<Rec("bar", "s1", "gA")>>}

\* what the remote backend of a run of Spec answers to stage k's fetch:
\* nothing, or one record
SmallLists(k) ==
    IF k = 1 THEN {<<>>, <<Rec("contract", "s1", "gA")>>}
    ELSE {<<>>, <<Rec(StageKind[k], "1", "gA")>>}

\* One life of a fresh bridge, every interleaving of its two threads: the
\* host connects it once, uses it and closes it, while the delivery thread
\* runs.  The remote backend answers each fetch with at most one record; the
\* runs of SpecSeq cover the longer lists.
Next ==
    \/ \E req \in Symbols : Connected /\ subscribe(req)
    \/ \E req \in Symbols, id \in OrderIdSamples : Connected /\ send_order(req, id)
    \/ \E req \in Symbols : Connected /\ cancel_order(req)
    \/ \E req \in Symbols, bars \in BarSamples : Connected /\ query_history(req, bars)
    \/ ~active /\ connects = 0 /\ connect_subscribe_topic
    \/ connect_start(default_setting)
    \/ pc = "query_all:fetch" /\ \E list \in SmallLists(stage) : query_all_fetch(list)
    \/ query_all_store
    \/ query_all_item
    \/ query_all_log
    \/ Connected /\ close_stop
    \/ close_join
    \/ thread_check
    \/ \E event \in PushedEvents : thread_deliver(event)
    \/ thread_timeout

Spec == Init /\ [][Next]_vars

\* The caller thread alone, before anything is pushed: the host connects a
\* fresh bridge and calls the dispatcher operations.
NextSeq ==
    \/ \E req \in Symbols : Connected /\ subscribe(req)
    \/ \E req \in Symbols, id \in OrderIdSamples : Connected /\ send_order(req, id)
    \/ \E req \in Symbols : Connected /\ cancel_order(req)
    \/ \E req \in Symbols, bars \in BarSamples : Connected /\ query_history(req, bars)
    \/ ~active /\ connects = 0 /\ connect_subscribe_topic
    \/ connect_start(default_setting)
    \/ pc = "query_all:fetch" /\ \E list \in RemoteLists(stage) : query_all_fetch(list)
    \/ query_all_store
    \/ query_all_item
    \/ query_all_log

SpecSeq == Init /\ [][NextSeq]_vars

\* send_order on every remote answer of up to MaxIdLen tokens, after a
\* connect to a backend that holds contracts only.
NextOrder ==
    \/ \E req \in Symbols, id \in SeqUpTo(Tokens, MaxIdLen) : Connected /\ send_order(req, id)
    \/ ~active /\ connects = 0 /\ connect_subscribe_topic
    \/ connect_start(default_setting)
    \/ pc = "query_all:fetch" /\ stage = 1 /\ \E list \in RemoteLists(1) : query_all_fetch(list)
    \/ pc = "query_all:fetch" /\ stage > 1 /\ query_all_fetch(<<>>)
    \/ query_all_store
    \/ query_all_item
    \/ query_all_log

SpecOrder == Init /\ [][NextOrder]_vars

\* query_history on every remote answer of up to MaxBars bars, after a
\* connect to a backend that holds contracts only.
NextHistory ==
    \/ \E req \in Symbols, bars \in SeqUpTo(RemoteBars, MaxBars) :
          Connected /\ query_history(req, bars)
    \/ ~active /\ connects = 0 /\ connect_subscribe_topic
    \/ connect_start(default_setting)
    \/ pc = "query_all:fetch" /\ stage = 1 /\ \E list \in RemoteLists(1) : query_all_fetch(list)
    \/ pc = "query_all:fetch" /\ stage > 1 /\ query_all_fetch(<<>>)
    \/ query_all_store
    \/ query_all_item
    \/ query_all_log

SpecHistory == Init /\ [][NextHistory]_vars

\* what the remote backend of a run of SpecFail answers to stage k's fetch
\* when the call succeeds: it holds at most one contract and one trade
FailLists(k) == IF k \in {1, 5} THEN SmallLists(k) ELSE {<<>>}

\* The caller thread on a transport that can fail: the start of the
\* transport and each of the five fetches either succeeds or raises, and the
\* host may call connect again (up to MaxConnects calls).
NextFail ==
    \/ \E req \in Symbols : Connected /\ subscribe(req)
    \/ connects < MaxConnects /\ connect_subscribe_topic
    \/ connect_start(default_setting)
    \/ connect_start_raise(default_setting)
    \/ pc = "query_all:fetch" /\ \E list \in FailLists(stage) : query_all_fetch(list)
    \/ query_all_fetch_raise
    \/ query_all_store
    \/ query_all_item
    \/ query_all_log

SpecFail == Init /\ [][NextFail]_vars

\* what the remote backend of a run of SpecLife answers to stage k's fetch:
\* a contract list, with or without a repeated identity, and nothing else
LifeLists(k) ==
    IF k = 1
    THEN {<<>>,
          <<Rec("contract", "s1", "gA")>>,
          <<Rec("contract", "s1", "gA"), Rec("contract", "s1", "gB")>>,
          <<Rec("contract", "s2", "gA")>>}
    ELSE {<<>>}

\* The life of one bridge instance over several connects: the host connects
\* it, closes it and connects it again (up to MaxConnects calls of connect),
\* while the delivery thread runs and the backend pushes order updates.
NextLife ==
    \/ connects < MaxConnects /\ connect_subscribe_topic
    \/ connect_start(default_setting)
    \/ connect_start_raise(default_setting)
    \/ pc = "query_all:fetch" /\ \E list \in LifeLists(stage) : query_all_fetch(list)
    \/ query_all_store
    \/ query_all_item
    \/ query_all_log
    \/ Connected /\ close_stop
    \/ close_join
    \/ thread_check
    \/ thread_deliver(Event(Rec("order", "1", "gA")))
    \/ thread_timeout

SpecLife == Init /\ [][NextLife]_vars

\* ----------------------------------------------------------------- claims
\* connect has returned after a complete query_all
ConnectDone == pc = "idle" /\ Len(fetched) = 5

\* a contract record with identity req has been put on the host's event bus
Surfaced(req) ==
    \E i \in 1..Len(bus) :
        bus[i].event.data.kind = "contract" /\ vt_symbol(bus[i].event.data) = req

\* C1 as stated: every domain record that has left the bridge (on the event
\* bus from query_all or client_callback, or returned by query_history)
\* carries the bridge's own gateway name.
C1_AllRelabelled ==
    /\ \A i \in 1..Len(bus) :
          bus[i].event.data.kind \in RecordKinds
              => bus[i].event.data.gateway_name = gateway_name
    /\ ret.kind = "bars"
          => \A i \in 1..Len(ret.bars) : ret.bars[i].gateway_name = gateway_name

\* C1 amended: every domain record put on the event bus by query_all or by
\* client_callback carries the bridge's own gateway name; the bars that
\* query_history returns keep the name the remote backend gave them.
C1_BusRelabelled ==
    /\ \A i \in 1..Len(bus) :
          bus[i].event.data.kind \in RecordKinds
              => bus[i].event.data.gateway_name = gateway_name
    /\ ret.kind = "bars"
          => /\ Len(ret.bars) = Len(reply.bars)
             /\ \A i \in 1..Len(ret.bars) :
                   ret.bars[i].gateway_name = reply.bars[i].gateway_name

C1_Witness ==
    /\ \E i \in 1..Len(bus) :
          bus[i].via = "query_all" /\ bus[i].event.data.kind \in RecordKinds
    /\ \E i \in 1..Len(bus) :
          bus[i].via = "client_callback" /\ bus[i].event.data.kind \in RecordKinds
    /\ ret.kind = "bars"
    /\ ret.bars # <<>>

\* the last position in list of a contract with the identity of list[i]
LastOf(list, i) ==
    CHOOSE j \in i..Len(list) :
        /\ vt_symbol(list[j]) = vt_symbol(list[i])
        /\ \A k \in (j + 1)..Len(list) : vt_symbol(list[k]) # vt_symbol(list[i])

\* C2 as stated: after a query_all pass, for every contract C the remote
\* backend returned, the routing table maps C's identity to C's original
\* gateway name, and the copy forwarded to the host carries the bridge's name.
C2_OwnOriginalName ==
    ConnectDone =>
        \A i \in 1..Len(fetched[1]) :
            /\ vt_symbol(fetched[1][i]) \in DOMAIN symbol_gateway_map
            /\ symbol_gateway_map[vt_symbol(fetched[1][i])] = fetched[1][i].gateway_name
            /\ bus[i].via = "query_all"
            /\ bus[i].event.data.id = fetched[1][i].id
            /\ bus[i].event.data.gateway_name = gateway_name

\* C2 amended: after a query_all pass, for every contract C the remote
\* backend returned, the routing table maps C's identity to the original
\* gateway name of the last contract of the list with that identity (C's
\* own when no later contract shares it), and the copy of C forwarded to the
\* host carries the bridge's name.
C2_LastOriginalName ==
    ConnectDone =>
        \A i \in 1..Len(fetched[1]) :
            /\ vt_symbol(fetched[1][i]) \in DOMAIN symbol_gateway_map
            /\ symbol_gateway_map[vt_symbol(fetched[1][i])]
                   = fetched[1][LastOf(fetched[1], i)].gateway_name
            /\ bus[i].via = "query_all"
            /\ bus[i].event.data.id = fetched[1][i].id
            /\ bus[i].event.data.gateway_name = gateway_name

C2_Witness ==
    /\ ConnectDone
    /\ Len(fetched[1]) = 2
    /\ vt_symbol(fetched[1][1]) = vt_symbol(fetched[1][2])
    /\ fetched[1][1].gateway_name # fetched[1][2].gateway_name

\* C3 as stated: whenever subscribe, send_order or cancel_order issues its
\* remote call for an identity that a contract record has already surfaced
\* to the host, the routing table holds an entry for that identity.
C3_SurfacedHasEntry ==
    [][\A req \in Symbols :
          ( /\ Connected
            /\ Surfaced(req)
            /\ \/ subscribe(req)
               \/ \E id \in OrderIdSamples : send_order(req, id)
               \/ cancel_order(req) )
          => req \in DOMAIN symbol_gateway_map]_vars

\* C4: every account, position, order or trade record on the event bus,
\* whether query_all or client_callback put it there, has its composite key
\* built from the bridge's name it now carries, never from the remote name.
C4_DerivedRecomputed ==
    \A i \in 1..Len(bus) :
        bus[i].event.data.kind \in DerivedKinds
            => /\ bus[i].event.data.vt_id = <<gateway_name, ".", bus[i].event.data.id>>
               /\ bus[i].event.data.gateway_name = gateway_name

C4_Witness ==
    /\ \E i \in 1..Len(bus) :
          bus[i].via = "query_all" /\ bus[i].event.data.kind \in DerivedKinds
    /\ \E i \in 1..Len(bus) :
          bus[i].via = "client_callback" /\ bus[i].event.data.kind \in DerivedKinds

\* the position of the first "." of s (0 when s has none)
FirstDot(s) ==
    IF \E i \in 1..Len(s) : s[i] = "."
    THEN CHOOSE i \in 1..Len(s) : s[i] = "." /\ \A j \in 1..(i - 1) : s[j] # "."
    ELSE 0

\* C5 as stated: for a remote answer <remote-gateway>.<local-id> (both parts
\* non-empty), send_order returns <bridge-name>.<local-id>, the local id being
\* everything after the first ".", dots included.
C5_SplitOnFirstDot ==
    ( /\ Len(calls) = 1
      /\ calls[1].op = "send_order"
      /\ FirstDot(reply.str) > 1
      /\ FirstDot(reply.str) < Len(reply.str) )
    => ret = StrRet(<<gateway_name, ".">>
                    \o SubSeq(reply.str, FirstDot(reply.str) + 1, Len(reply.str)))

\* C6: when the remote send_order answers the empty identifier, send_order
\* returns the empty identifier, raises nothing, and leaves the routing table
\* and the event bus as they were.
C6_EmptyPassedThrough ==
    [][\A req \in Symbols :
          (Connected /\ send_order(req, <<>>))
          => /\ ret' = StrRet(<<>>)
             /\ UNCHANGED <<symbol_gateway_map, bus>>]_vars

C6_Witness ==
    /\ Len(calls) = 1
    /\ calls[1].op = "send_order"
    /\ reply = StrRet(<<>>)
    /\ ret = StrRet(<<>>)
    /\ symbol_gateway_map # EmptyMap

\* the routing table's entry for req, or the empty string
EntryOrEmpty(req) ==
    IF req \in DOMAIN symbol_gateway_map THEN symbol_gateway_map[req] ELSE ""

\* C7: every subscribe, send_order, cancel_order and query_history issues
\* exactly one remote call, with the routing table's entry for the request's
\* identity as sub-gateway argument, or "" when there is no entry.
C7_OneCallWithEntry ==
    [][\A req \in Symbols :
          /\ (Connected /\ subscribe(req))
                => calls' = <<Call("subscribe", NoData, <<req, EntryOrEmpty(req)>>)>>
          /\ (Connected /\ \E id \in OrderIdSamples : send_order(req, id))
                => calls' = <<Call("send_order", NoData, <<req, EntryOrEmpty(req)>>)>>
          /\ (Connected /\ cancel_order(req))
                => calls' = <<Call("cancel_order", NoData, <<req, EntryOrEmpty(req)>>)>>
          /\ (Connected /\ \E bars \in BarSamples : query_history(req, bars))
                => /\ calls' = <<Call("query_history", NoData, <<req, EntryOrEmpty(req)>>)>>
                   /\ ret'.kind = "bars"]_vars

C7_Witness ==
    /\ "s1" \in DOMAIN symbol_gateway_map
    /\ "s2" \notin DOMAIN symbol_gateway_map
    /\ calls = <<Call("query_history", NoData, <<"s2", "">>)>>

\* C8: a delivery of the None event puts nothing on the event bus, changes
\* nothing of the bridge, and the delivery thread goes on with its loop.
C8_NoneDropped ==
    [][thread_deliver(None)
          => /\ UNCHANGED <<bus, symbol_gateway_map, active, pc, stage, pending, calls,
                           reply, ret, fetched>>
             /\ thread' = "check"]_vars

C8_Witness ==
    /\ delivered > 0
    /\ \A i \in 1..Len(bus) : bus[i].via # "client_callback"
    /\ bus # <<>>

\* C9: once close() has returned, the delivery thread has ended and nothing
\* more is put on the event bus.
C9_CloseIsBarrier ==
    [][closed => (thread \in {"none", "terminated"} /\ bus' = bus)]_vars

C9_Witness ==
    /\ closed
    /\ \E i \in 1..Len(bus) : bus[i].via = "client_callback"

\* the calls of stage k of query_all for the remote list
StageTrace(k, list) ==
    <<Call(<<"get_all_contracts", "get_all_accounts", "get_all_positions",
             "get_all_orders", "get_all_trades">>[k], NoData, <<>>)>>
    \o [i \in 1..Len(list) |->
           Call(<<"on_contract", "on_account", "on_position", "on_order", "on_trade">>[k],
                query_all_record(k, list[i]), <<>>)]
    \o <<Call("write_log", NoData, <<StageLog[k]>>)>>

NotConnectLog(c) == c # Call("write_log", NoData, <<ConnectLog>>)

\* C10: the calls of a connect that has returned are, in this order: one
\* subscribe_topic(""), one start with the two configured addresses, then for
\* contracts, accounts, positions, orders and trades in turn: the fetch, one
\* forwarded record per remote item in the fetched order, one log line.
C10_ConnectOrder ==
    (pc = "idle" /\ Len(calls) > 0 /\ calls[1].op = "subscribe_topic")
    => /\ Len(fetched) = 5
       /\ SelectSeq(calls, NotConnectLog)
            = <<Call("subscribe_topic", NoData, <<"">>),
                Call("start", NoData, <<"tcp://127.0.0.1:2014", "tcp://127.0.0.1:4102">>)>>
              \o StageTrace(1, fetched[1]) \o StageTrace(2, fetched[2])
              \o StageTrace(3, fetched[3]) \o StageTrace(4, fetched[4])
              \o StageTrace(5, fetched[5])

C10_Witness ==
    /\ pc = "idle"
    /\ Len(calls) > 0
    /\ calls[1].op = "subscribe_topic"
    /\ Len(fetched) = 5
    /\ Len(fetched[1]) = 2
    /\ fetched[1][1] # fetched[1][2]
    /\ fetched[3] = <<>>
    /\ fetched[5] # <<>>

\* C11 as stated: when a fetch of query_all fails, the later stages are still
\* fetched and connect does not raise: a connect that has reached query_all
\* and ended has issued all five fetches and returned normally.
C11_StagesIndependent ==
    (pc = "idle" /\ \E i \in 1..Len(calls) : calls[i].op = "get_all_contracts")
    => /\ ret.kind # "raise"
       /\ \A k \in 1..5 : \E i \in 1..Len(calls) : calls[i].op = StageFetch[k]

\* C12: when the start of the transport fails, connect raises after exactly
\* one subscribe_topic and one start: no fetch is issued, nothing is put on
\* the event bus and the routing table is as it was.
C12_StartFailureSurfaced ==
    [][connect_start_raise(default_setting)
          => /\ ret'.kind = "raise"
             /\ pc' = "idle"
             /\ calls' = <<Call("subscribe_topic", NoData, <<"">>),
                           Call("start", NoData,
                                <<"tcp://127.0.0.1:2014", "tcp://127.0.0.1:4102">>)>>
             /\ UNCHANGED <<symbol_gateway_map, bus, fetched, stage, pending>>]_vars

C12_Witness ==
    /\ pc = "idle"
    /\ ret = Raise("TransportError")
    /\ Len(calls) = 2
    /\ symbol_gateway_map # EmptyMap
    /\ bus # <<>>

\* C13: query_history returns exactly the sequence the remote query_history
\* call answered: the same bars in the same order, no field of a bar changed,
\* the remote gateway name included.
C13_HistoryVerbatim ==
    (Len(calls) = 1 /\ calls[1].op = "query_history")
    => /\ ret.kind = "bars"
       /\ reply.kind = "bars"
       /\ Len(ret.bars) = Len(reply.bars)
       /\ \A i \in 1..Len(ret.bars) : ret.bars[i] = reply.bars[i]

C13_Witness ==
    /\ Len(calls) = 1
    /\ calls[1].op = "query_history"
    /\ Len(ret.bars) = 2
    /\ ret.bars[1] # ret.bars[2]
    /\ ret.bars[1].gateway_name \in RemoteGateways

\* close() has returned at least once on this instance
ClosedOnce == \E i \in 1..Len(history) : history[i].op = "close"

\* C14 as stated: the bridge is disconnected or connected, only close() takes
\* it from connected to disconnected, and there is no reconnect in place:
\* once close() has returned on an instance, no later connect() starts the
\* transport or the delivery thread of that instance again.
C14_NoReconnectInPlace ==
    /\ [][(active /\ ~active') => (pc = "idle" /\ pc' = "close:join")]_vars
    /\ [](ClosedOnce => (~active /\ thread \in {"none", "terminated"}))

\* C15: the routing table is written only by the contract loop of query_all,
\* on the caller thread: subscribe, send_order, cancel_order, query_history,
\* close and every delivery to client_callback leave it as it is, also while
\* query_all is rebuilding it: a step that changes the table is the store of
\* the contract loop and is none of those operations.
C15_OnlyQueryAllWrites ==
    [][\/ symbol_gateway_map' = symbol_gateway_map
       \/ /\ pc = "query_all:loop" /\ stage = 1 /\ pc' = "query_all:forward"
          /\ \A req \in Symbols :
                ~( \/ subscribe(req)
                   \/ \E id \in OrderIdSamples : send_order(req, id)
                   \/ cancel_order(req)
                   \/ \E bars \in BarSamples : query_history(req, bars) )
          /\ ~(close_stop \/ close_join)
          /\ \A event \in PushedEvents : ~thread_deliver(event)]_vars

\* a contract was delivered to client_callback while query_all was in its
\* contract loop, and the table holds what query_all stored, nothing else
C15_Witness ==
    /\ pc = "query_all:forward"
    /\ \E i \in 1..Len(bus) :
          bus[i].via = "client_callback" /\ bus[i].event.data.kind = "contract"
    /\ DOMAIN symbol_gateway_map = {"s1"}

IsConnect(h) == h.op = "connect"

\* the connects that have returned, in order
ReturnedConnects == SelectSeq(history, IsConnect)

\* C16: after a query_all over a contract list, every identity of the list
\* maps to the gateway name of its last occurrence in the list; and a
\* query_all over the same list as the query_all before it leaves the
\* routing table equal to what that one left.
C16_LastWriteWinsIdempotent ==
    /\ \A n \in 1..Len(ReturnedConnects) :
          LET list == ReturnedConnects[n].contracts
              map == ReturnedConnects[n].map
          IN \A i \in 1..Len(list) :
                /\ vt_symbol(list[i]) \in DOMAIN map
                /\ map[vt_symbol(list[i])] = list[LastOf(list, i)].gateway_name
    /\ \A n \in 1..(Len(ReturnedConnects) - 1) :
          ReturnedConnects[n + 1].contracts = ReturnedConnects[n].contracts
              => ReturnedConnects[n + 1].map = ReturnedConnects[n].map

C16_Witness ==
    /\ Len(ReturnedConnects) = 2
    /\ ReturnedConnects[1].contracts = ReturnedConnects[2].contracts
    /\ Len(ReturnedConnects[1].contracts) = 2
    /\ vt_symbol(ReturnedConnects[1].contracts[1]) = vt_symbol(ReturnedConnects[1].contracts[2])
    /\ ReturnedConnects[2].map = [k \in {"s1"} |-> "gB"]

\* C17: no step of the bridge removes an entry from the routing table: an
\* identity that has an entry keeps one (its value may change) through every
\* later query_all, whatever its contract list holds, and through close().
C17_EntriesNeverDeleted ==
    [][DOMAIN symbol_gateway_map \subseteq DOMAIN symbol_gateway_map']_vars

\* s1 got its entry from the first connect, the second connect fetched a list
\* without s1, close() has returned, and s1 still has its entry
C17_Witness ==
    /\ Len(history) = 3
    /\ history[1].op = "connect"
    /\ history[1].contracts = <<Rec("contract", "s1", "gA")>>
    /\ history[2].op = "connect"
    /\ history[2].contracts = <<Rec("contract", "s2", "gA")>>
    /\ history[3].op = "close"
    /\ symbol_gateway_map = [k \in {"s1", "s2"} |-> "gA"]

\* C18: every delivery of an event other than None appends exactly one event
\* to the event bus, behind everything put there before (so the forwarded
\* events keep the order of delivery); the forwarded payload differs from the
\* delivered one at most in its gateway name and the key derived from it, and
\* a payload without a gateway name is forwarded as it was delivered.
C18_OnePutPerDelivery ==
    [][\A event \in PushedEvents :
          (thread_deliver(event) /\ ~event.isNone)
          => /\ Len(bus') = Len(bus) + 1
             /\ SubSeq(bus', 1, Len(bus)) = bus
             /\ LET out == bus'[Len(bus')]
                IN /\ out.via = "client_callback"
                   /\ ~out.event.isNone
                   /\ out.event.data.kind = event.data.kind
                   /\ out.event.data.id = event.data.id
                   /\ event.data.gateway_name = NoAttr => out.event = event]_vars

\* the callback's puts, in the order of the event bus
IsCallbackPut(p) == p.via = "client_callback"

\* a plain payload and then an order update were delivered and forwarded
C18_Witness ==
    /\ delivered = 2
    /\ SelectSeq(bus, IsCallbackPut)
         = <<Put("client_callback", Event(PlainData)),
             Put("client_callback", Event(Rec("order", "1", gateway_name)))>>

\* C19: when query_all relabels a contract and hands it to on_contract, the
\* routing table already maps the contract's identity to the remote gateway
\* name the contract still carries; so every contract query_all has put on
\* the event bus is resolved by the routing table from that moment on.
C19_StoredBeforeForwarded ==
    /\ [][(query_all_item /\ stage = 1)
            => /\ vt_symbol(Head(pending)) \in DOMAIN symbol_gateway_map
               /\ symbol_gateway_map[vt_symbol(Head(pending))] = Head(pending).gateway_name
               /\ Head(pending).gateway_name \in RemoteGateways
               /\ bus'[Len(bus')].event.data = relabel(Head(pending))]_vars
    /\ [](\A i \in 1..Len(bus) :
            (bus[i].via = "query_all" /\ bus[i].event.data.kind = "contract")
                => /\ vt_symbol(bus[i].event.data) \in DOMAIN symbol_gateway_map
                   /\ symbol_gateway_map[vt_symbol(bus[i].event.data)] \in RemoteGateways)

\* in the middle of the contract loop: one contract forwarded, one to go
C19_Witness ==
    /\ pc = "query_all:loop"
    /\ stage = 1
    /\ Len(pending) = 1
    /\ Len(bus) = 1
    /\ bus[1].event.data = Rec("contract", "s1", gateway_name)
    /\ symbol_gateway_map = [k \in {"s1"} |-> "gA"]

\* C20 as stated: the host receives every record of the bootstrap query_all
\* before any event client_callback forwards: on the event bus no put of
\* client_callback comes before a put of query_all.
C20_BootstrapBeforePushed ==
    \A i \in 1..Len(bus) : \A j \in (i + 1)..Len(bus) :
        bus[i].via = "client_callback" => bus[j].via # "query_all"

====
